---- MODULE Spec2Model ----
(***************************************************************************)
(* Model of api/parse-email.js: the dictated-email normalizer              *)
(* (formatEmailText, validateEmail) and the HTTP handler around it.        *)
(*                                                                         *)
(* A JavaScript string is a sequence of characters; a character is a       *)
(* one-character TLA+ string ("a", "@", " "), or a code-point name such as *)
(* "u+00f3" for a character outside ASCII.  Numbers that the code writes   *)
(* as 0.0, 0.4, 0.6, 0.8, 0.99 are kept in hundredths (0, 40, 60, 80, 99). *)
(***************************************************************************)
EXTENDS Integers, Sequences, FiniteSets, TLC

VARIABLES variant, mode, req, input, pc, s, rawTokens, i, out, seenAt,
          result, stages, text, responses, calls

vars == <<variant, mode, req, input, pc, s, rawTokens, i, out, seenAt,
          result, stages, text, responses, calls>>

(***************************************************************************)
(* Bounds of the model.                                                    *)
(***************************************************************************)
\* the longest sequence of vocabulary words joined into an input string
MaxTokens == 3

\* the same, for the inputs of the specification with fairness
MaxFairTokens == 2

(***************************************************************************)
(* Characters.                                                             *)
(***************************************************************************)
LowerSeq == <<"a","b","c","d","e","f","g","h","i","j","k","l","m",
              "n","o","p","q","r","s","t","u","v","w","x","y","z">>

UpperSeq == <<"A","B","C","D","E","F","G","H","I","J","K","L","M",
              "N","O","P","Q","R","S","T","U","V","W","X","Y","Z">>

LowerLetters == { LowerSeq[k] : k \in 1..Len(LowerSeq) }

UpperLetters == { UpperSeq[k] : k \in 1..Len(UpperSeq) }

Digits == {"0","1","2","3","4","5","6","7","8","9"}

\* \s of the regular expressions and of String.prototype.trim
Whitespace == {" ", "\t", "\n"}

\* the code points U+0300..U+036F that the model's characters decompose to
CombiningMarks == {"u+0301", "u+0303"}

\* [a-z0-9._+-]
EmailChars == LowerLetters \cup Digits \cup {".", "_", "+", "-"}

\* [a-z0-9-] under the i flag
HostCharsI == LowerLetters \cup UpperLetters \cup Digits \cup {"-"}

\* [a-z0-9.-] under the i flag
DomainCharsI == HostCharsI \cup {"."}

\* [a-z] under the i flag
LettersI == LowerLetters \cup UpperLetters

\* [\.\-_+]
PunctChars == {".", "-", "_", "+"}

(***************************************************************************)
(* Generic sequence helpers.                                               *)
(***************************************************************************)
Indices(str) == [k \in 1..Len(str) |-> k]

\* the characters of str at the positions idx, in order
KeepAt(str, idx) == [j \in 1..Len(idx) |-> str[idx[j]]]

\* str without its leading run of characters of cs
StripLeading(str, cs) ==
  LET other(k) == str[k] \notin cs
      ks == SelectSeq(Indices(str), other)
  IN IF ks = <<>> THEN <<>> ELSE SubSeq(str, ks[1], Len(str))

\* str without its trailing run of characters of cs
StripTrailing(str, cs) ==
  LET other(k) == str[k] \notin cs
      ks == SelectSeq(Indices(str), other)
  IN IF ks = <<>> THEN <<>> ELSE SubSeq(str, 1, ks[Len(ks)])

Contains(str, c) == \E k \in 1..Len(str) : str[k] = c

CountOf(str, c) == Cardinality({ k \in 1..Len(str) : str[k] = c })

\* String.prototype.indexOf for a one-character needle, 1-based; 0 is JS's -1
IndexOf(str, c) ==
  LET isC(k) == str[k] = c
      ks == SelectSeq(Indices(str), isC)
  IN IF ks = <<>> THEN 0 ELSE ks[1]

\* String.prototype.includes("..")
HasDotDot(str) == \E k \in 1..(Len(str)-1) : str[k] = "." /\ str[k+1] = "."

RECURSIVE JoinWith(_, _)
JoinWith(ws, sep) ==
  IF ws = <<>> THEN <<>>
  ELSE IF Len(ws) = 1 THEN Head(ws)
  ELSE Head(ws) \o sep \o JoinWith(Tail(ws), sep)

(***************************************************************************)
(* 4.1 Canonicalizer: trim, toLowerCase, removeDiacritics.                 *)
(***************************************************************************)
Trim(str) == StripTrailing(StripLeading(str, Whitespace), Whitespace)

LowerChar(c) ==
  IF c \in UpperLetters
  THEN LowerSeq[CHOOSE k \in 1..Len(UpperSeq) : UpperSeq[k] = c]
  ELSE IF c = "u+00d3" THEN "u+00f3"
  ELSE IF c = "u+00d1" THEN "u+00f1"
  ELSE c

ToLowerCase(str) == [k \in 1..Len(str) |-> LowerChar(str[k])]

\* canonical decomposition of one character
NFDChar(c) ==
  IF c = "u+00f3" THEN <<"o", "u+0301">>
  ELSE IF c = "u+00d3" THEN <<"O", "u+0301">>
  ELSE IF c = "u+00f1" THEN <<"n", "u+0303">>
  ELSE IF c = "u+00d1" THEN <<"N", "u+0303">>
  ELSE <<c>>

IsNotMark(c) == c \notin CombiningMarks

\* c.normalize("NFD").replace(/[\u0300-\u036f]/g, "")
BaseOfChar(c) == SelectSeq(NFDChar(c), IsNotMark)

\* every character of the model decomposes to at most one character that is
\* not a combining mark
removeDiacritics(str) ==
  LET keep(k) == BaseOfChar(str[k]) # <<>>
      idx == SelectSeq(Indices(str), keep)
  IN [j \in 1..Len(idx) |-> BaseOfChar(str[idx[j]])[1]]

\* removeDiacritics(input.trim().toLowerCase()); the bound variables make
\* each stage's result a value that the next stage reads
Canonicalize(str) ==
  CHOOSE r \in { removeDiacritics(low) :
                   low \in { ToLowerCase(trimmed) : trimmed \in {Trim(str)} } } :
    TRUE

(***************************************************************************)
(* 4.2 Tokenizer: s.split(/\s+/).filter(Boolean).                          *)
(***************************************************************************)
\* the maximal runs of characters other than whitespace, in order
Runs(str) ==
  LET isStart(k) == /\ str[k] \notin Whitespace
                    /\ (k = 1 \/ str[k-1] \in Whitespace)
      isEnd(k) == /\ str[k] \notin Whitespace
                  /\ (k = Len(str) \/ str[k+1] \in Whitespace)
      starts == SelectSeq(Indices(str), isStart)
      ends == SelectSeq(Indices(str), isEnd)
  IN [j \in 1..Len(starts) |-> SubSeq(str, starts[j], ends[j])]

\* str.split(/\s+/): the runs, with an empty piece before a leading run of
\* whitespace and after a trailing one
SplitWs(str) ==
  (IF str = <<>> \/ str[1] \in Whitespace THEN << <<>> >> ELSE <<>>)
    \o Runs(str)
    \o (IF str # <<>> /\ str[Len(str)] \in Whitespace THEN << <<>> >> ELSE <<>>)

IsNonEmpty(tok) == tok # <<>>

Tokenize(str) == SelectSeq(SplitWs(str), IsNonEmpty)

(***************************************************************************)
(* Vocabulary tables.  The file holds several versions of the function;    *)
(* the model covers two: "base" (lines 1-108) and "fallback" (lines        *)
(* 118-276), which has a larger vocabulary and infers a missing "@".       *)
(***************************************************************************)
Variants == {"base", "fallback"}

IgnoreBase ==
  { <<"e","s","p","a","c","i","o">>,
    <<"e","s","p","a","c","i","o","s">>,
    <<"t","o","d","o">>,
    <<"j","u","n","t","o">>,
    <<"t","o","d","o","j","u","n","t","o">>,
    <<"s","i","n">>,
    <<"y">>,
    <<"c","o","n">>,
    <<"l","a">>,
    <<"e","l">>,
    <<"l","o","s">>,
    <<"l","a","s">>,
    <<"p","o","r">>,
    <<"f","a","v","o","r">>,
    <<"p","o","r","f","a","v","o","r">> }

\* the filler list with the word "y" left out
IgnoreWithoutY(v) ==
  (IF v = "fallback" THEN IgnoreBase \cup { <<"p","o","r","f","a">> } ELSE IgnoreBase)
    \ { <<"y">> }

IGNORE(v) == IF v = "fallback" THEN IgnoreBase \cup { <<"p","o","r","f","a">> } ELSE IgnoreBase

tGuion == <<"g","u","i","o","n">>

tBajo == <<"b","a","j","o">>

tMedio == <<"m","e","d","i","o">>

tAlto == <<"a","l","t","o">>

AtKeysBase == { <<"@">>, <<"a","r","r","o","b","a">>, <<"a","t">> }

AtKeys(v) ==
  IF v = "fallback" THEN AtKeysBase \cup { <<"a","r","o","b","a">>, <<"a","r","r","o","v","a">>, <<"a","r","z","r","o","b","a">> }
  ELSE AtKeysBase

DotKeys == { <<"p","u","n","t","o">>, <<"d","o","t">>, <<"p","u","n","t","o","s">> }

DashKeys == { <<"g","u","i","o","n">>, <<"g","u","i","o","n","m","e","d","i","o">>, <<"g","u","i","o","n","-","m","e","d","i","o">>, <<"d","a","s","h">>, <<"h","y","p","h","e","n">> }

UnderscoreKeys == { <<"g","u","i","o","n","b","a","j","o">>, <<"u","n","d","e","r","s","c","o","r","e">> }

PlusKeys == { <<"m","a","s">>, <<"p","l","u","s">> }

\* String(Object.prototype.constructor) and String(Object.prototype): what
\* `out += sym` appends when sym is not a string
ObjectFunctionText == <<"f","u","n","c","t","i","o","n"," ","O","b","j","e","c","t","(",")"," ","{"," ","[","n","a","t","i","v","e"," ","c","o","d","e","]"," ","}">>

ObjectPrototypeText == <<"[","o","b","j","e","c","t"," ","O","b","j","e","c","t","]">>

\* The string that MAP_SINGLE[t] coerces to, <<>> when the lookup is
\* undefined.  MAP_SINGLE is an object literal, so the lookup also finds the
\* properties inherited from Object.prototype; of those only "constructor"
\* and "__proto__" are spelled in lower case, as every token is.
MAP_SINGLE(v, t) ==
  IF t \in AtKeys(v) THEN <<"@">>
  ELSE IF t \in DotKeys THEN <<".">>
  ELSE IF t \in DashKeys THEN <<"-">>
  ELSE IF t \in UnderscoreKeys THEN <<"_">>
  ELSE IF t \in PlusKeys THEN <<"+">>
  ELSE IF t = <<"c","o","n","s","t","r","u","c","t","o","r">> THEN ObjectFunctionText
  ELSE IF t = <<"_","_","p","r","o","t","o","_","_">> THEN ObjectPrototypeText
  ELSE <<>>

LiteralSymbols == {<<".">>, <<"_">>, <<"-">>, <<"+">>}

(***************************************************************************)
(* 4.3 Token rewriter: one iteration of the while loop.                    *)
(***************************************************************************)
IsEmailChar(c) == c \in EmailChars

IsEmailCharOrAt(c) == c \in EmailChars \cup {"@"}

\* a strip that lets "@" through
StripTokenKeepAt(t) == SelectSeq(t, IsEmailCharOrAt)

\* t.replace(/[^a-z0-9._+-]/g, "")
StripToken(t) == SelectSeq(t, IsEmailChar)

\* the symbol of the bigram ("guion", next), <<>> when there is none
BigramSymbolBajoDash(next) ==
  IF next = tBajo THEN <<"-">>
  ELSE IF next = tMedio \/ next = tAlto THEN <<"-">>
  ELSE <<>>

BigramSymbol(next) ==
  IF next = tBajo THEN <<"_">>
  ELSE IF next = tMedio \/ next = tAlto THEN <<"-">>
  ELSE <<>>

\* what a token that maps to "@" appends
AtEmissionAlways(seen) == <<"@">>

AtEmission(seen) == IF seen THEN <<>> ELSE <<"@">>

\* the rule the loop body applies with the cursor on toks[k+1] (k is the
\* 0-based cursor of the code)
RuleAt(v, toks, k) ==
  LET t == toks[k+1] IN
  IF t \in IGNORE(v) THEN "ignore"
  ELSE IF t = tGuion /\ k + 1 < Len(toks) /\ BigramSymbol(toks[k+2]) # <<>>
       THEN "bigram"
  ELSE IF MAP_SINGLE(v, t) # <<>> THEN "single"
  ELSE IF t \in LiteralSymbols THEN "literal"
  ELSE "strip"

\* the loop body: from (k, o, seen) to the next (i, out, seenAt)
RewriteStep(v, toks, k, o, seen) ==
  LET t == toks[k+1]
      rule == RuleAt(v, toks, k)
      sym == MAP_SINGLE(v, t)
  IN
  IF rule = "ignore" THEN [i |-> k + 1, out |-> o, seenAt |-> seen]
  ELSE IF rule = "bigram"
       THEN [i |-> k + 2, out |-> o \o BigramSymbol(toks[k+2]), seenAt |-> seen]
  ELSE IF rule = "single"
       THEN IF sym = <<"@">>
            THEN [i |-> k + 1, out |-> o \o AtEmission(seen), seenAt |-> TRUE]
            ELSE [i |-> k + 1, out |-> o \o sym, seenAt |-> seen]
  ELSE IF rule = "literal" THEN [i |-> k + 1, out |-> o \o t, seenAt |-> seen]
  ELSE [i |-> k + 1, out |-> o \o StripToken(t), seenAt |-> seen]

\* the whole loop, from the cursor at k
RECURSIVE RewriteFrom(_, _, _, _, _)
RewriteFrom(v, toks, k, o, seen) ==
  IF k < Len(toks)
  THEN LET n == RewriteStep(v, toks, k, o, seen)
       IN RewriteFrom(v, toks, n.i, n.out, n.seenAt)
  ELSE [out |-> o, seenAt |-> seen]

(***************************************************************************)
(* 4.4 Cleanup pass.                                                       *)
(***************************************************************************)
CollapseDotsOff(str) == str

\* str.replace(/\.+/g, "."): of every run of dots the first is kept
CollapseDots(str) ==
  LET keep(k) == ~(str[k] = "." /\ k > 1 /\ str[k-1] = ".")
  IN KeepAt(str, SelectSeq(Indices(str), keep))

\* str.replace(/\.@/g, "@"): a dot right before an "@" goes
DropDotBeforeAt(str) ==
  LET keep(k) == ~(str[k] = "." /\ k < Len(str) /\ str[k+1] = "@")
  IN KeepAt(str, SelectSeq(Indices(str), keep))

\* str.replace(/@\.?/g, "@"): a dot right after an "@" goes
DropDotAfterAt(str) ==
  LET keep(k) == ~(str[k] = "." /\ k > 1 /\ str[k-1] = "@")
  IN KeepAt(str, SelectSeq(Indices(str), keep))

\* line 53: the three replacements, each reading the result of the one
\* before it
BasicCleanup(str) ==
  CHOOSE r \in { DropDotAfterAt(noDotAt) :
                   noDotAt \in { DropDotBeforeAt(collapsed) :
                                   collapsed \in {CollapseDots(str)} } } :
    TRUE

\* str.replace(/^\.+|\.+$/g, "")
StripEdgeDots(str) == StripTrailing(StripLeading(str, {"."}), {"."})

\* str.split("@", 2): the pieces around "@", at most the first two
SplitAt2(str) ==
  LET at == IndexOf(str, "@") IN
  IF at = 0 THEN <<str>>
  ELSE LET rest == SubSeq(str, at+1, Len(str))
           at2 == IndexOf(rest, "@")
       IN <<SubSeq(str, 1, at-1),
            IF at2 = 0 THEN rest ELSE SubSeq(rest, 1, at2-1)>>

\* lines 55-63: the final adjustment of each part
FinalAdjust(str) ==
  IF Contains(str, "@")
  THEN CHOOSE r \in
         { cleanLocal \o <<"@">> \o CollapseDots(cleanDomain) :
             cleanLocal \in {StripEdgeDots(SplitAt2(str)[1])},
             cleanDomain \in {StripEdgeDots(SplitAt2(str)[2])} } : TRUE
  ELSE StripEdgeDots(str)

(***************************************************************************)
(* The domain-inference fallback of the "fallback" version (lines 188-208).*)
(***************************************************************************)
AllIn(str, cs) == \A k \in 1..Len(str) : str[k] \in cs

\* str matches ^[a-z]{2,}(?:\.[a-z]{2,})?$ under the i flag
TldTail(str) ==
  \/ Len(str) >= 2 /\ AllIn(str, LettersI)
  \/ \E d \in 3..(Len(str)-2) :
       /\ str[d] = "."
       /\ AllIn(SubSeq(str, 1, d-1), LettersI)
       /\ AllIn(SubSeq(str, d+1, Len(str)), LettersI)

\* str matches ^[a-z0-9-]+\.[a-z]{2,}(?:\.[a-z]{2,})?$ under the i flag
DomainLike(str) ==
  \E d \in 2..(Len(str)-2) :
    /\ str[d] = "."
    /\ AllIn(SubSeq(str, 1, d-1), HostCharsI)
    /\ TldTail(SubSeq(str, d+1, Len(str)))

\* str.match(/(.*?)([a-z0-9-]+\.[a-z]{2,}(?:\.[a-z]{2,})?)$/i): the length
\* of group 1, the shortest prefix whose rest is domain-like; -1 for no match
SuffixMatch(str) ==
  LET ks == { k \in 0..Len(str) : DomainLike(SubSeq(str, k+1, Len(str))) } IN
  IF ks = {} THEN -1
  ELSE CHOOSE k \in ks : \A j \in ks : k <= j

\* one strategy: lines 192-197 and 201-206
InferAt(str) ==
  LET k == SuffixMatch(str) IN
  IF k = -1 THEN str
  ELSE LET local == StripTrailing(SubSeq(str, 1, k), PunctChars)
           domain == StripLeading(SubSeq(str, k+1, Len(str)), PunctChars)
       IN IF local # <<>> /\ domain # <<>>
          THEN local \o <<"@">> \o domain
          ELSE str

\* lines 189-208
EnsureAt(str, seen) ==
  IF Contains(str, "@") THEN str
  ELSE LET o1 == IF seen THEN InferAt(str) ELSE str
       IN IF Contains(o1, "@") THEN o1 ELSE InferAt(o1)

(***************************************************************************)
(* 4.5 Validator.                                                          *)
(***************************************************************************)
\* /^[a-z0-9._+-]+$/.test(local) && local.length > 0
LocalOk(local) == Len(local) > 0 /\ AllIn(local, EmailChars)

\* /^[a-z0-9.-]+\.[a-z]{2,}$/i.test(domain) && !domain.includes("..")
DomainOk(domain) ==
  /\ \E d \in 2..(Len(domain)-2) :
       /\ domain[d] = "."
       /\ AllIn(SubSeq(domain, 1, d-1), DomainCharsI)
       /\ AllIn(SubSeq(domain, d+1, Len(domain)), LettersI)
  /\ ~HasDotDot(domain)

ConfidenceRounded(localOk, domainOk, domain) ==
  IF localOk /\ domainOk THEN 100
  ELSE IF localOk /\ Len(domain) > 0 THEN 80
  ELSE 60

ConfidenceDomainFirst(localOk, domainOk, domain) ==
  IF localOk /\ Len(domain) > 0 THEN 80
  ELSE IF localOk /\ domainOk THEN 99
  ELSE 60

\* lines 76-78, in hundredths
Confidence(localOk, domainOk, domain) ==
  IF localOk /\ domainOk THEN 99
  ELSE IF localOk /\ Len(domain) > 0 THEN 80
  ELSE 60

validateEmail(email) ==
  LET at == IndexOf(email, "@") IN
  IF at = 0
  THEN [isValid |-> FALSE, confidence |-> 40, local |-> <<>>, domain |-> <<>>]
  ELSE LET local == SubSeq(email, 1, at-1)
           domain == SubSeq(email, at+1, Len(email))
           localOk == LocalOk(local)
           domainOk == DomainOk(domain)
       IN [isValid |-> localOk /\ domainOk,
           confidence |-> Confidence(localOk, domainOk, domain),
           local |-> local, domain |-> domain]

(***************************************************************************)
(* The whole pipeline after the guard, as a function of the token list.    *)
(***************************************************************************)
EmailOfTokens(v, toks) ==
  LET r == RewriteFrom(v, toks, 0, <<>>, FALSE)
      c == BasicCleanup(r.out)
      e == IF v = "fallback" THEN EnsureAt(c, r.seenAt) ELSE c
  IN FinalAdjust(e)

(***************************************************************************)
(* JavaScript values that reach the guard and the handler.                 *)
(***************************************************************************)
JsUndefined == [t |-> "undefined", str |-> <<>>, num |-> 0]

JsNull == [t |-> "null", str |-> <<>>, num |-> 0]

JsNum(n) == [t |-> "number", str |-> <<>>, num |-> n]

JsStr(str) == [t |-> "string", str |-> str, num |-> 0]

\* !v
Falsy(v) ==
  \/ v.t \in {"undefined", "null"}
  \/ v.t = "number" /\ v.num = 0
  \/ v.t = "string" /\ v.str = <<>>

\* a || b
OrElse(a, b) == IF Falsy(a) THEN b ELSE a

IsEmptyInputNoTypeCheck(v) == Falsy(v)

\* !input || typeof input !== "string"
IsEmptyInput(v) == Falsy(v) \/ v.t # "string"

NoResult ==
  [shape |-> "none", input |-> JsUndefined, email |-> <<>>, isValid |-> FALSE,
   confidence |-> 0, local |-> <<>>, domain |-> <<>>, reason |-> ""]

\* line 11
EmptyInputResult ==
  [shape |-> "error", input |-> JsUndefined, email |-> <<>>, isValid |-> FALSE,
   confidence |-> 0, local |-> <<>>, domain |-> <<>>, reason |-> "Empty input"]

\* lines 65-66
NormalizedResult(in, email) ==
  LET r == validateEmail(email) IN
  [shape |-> "normalized", input |-> in, email |-> email,
   isValid |-> r.isValid, confidence |-> r.confidence,
   local |-> r.local, domain |-> r.domain, reason |-> ""]

(***************************************************************************)
(* Inputs of the model.                                                    *)
(***************************************************************************)
Words ==
  { <<"a">>,
    <<"b",".","c","o","m">>,
    <<"a",".",".","b">>,
    <<"a","@","b">>,
    <<"a","r","r","o","b","a">>,
    <<"p","u","n","t","o">>,
    <<".">>,
    <<"g","u","i","o","n">>,
    <<"b","a","j","o">>,
    <<"m","e","d","i","o">>,
    <<"y">>,
    <<"a","l","t","o">>,
    <<"a","t">> }

RECURSIVE WordSeqs(_)
WordSeqs(n) ==
  IF n = 0 THEN { <<>> }
  ELSE LET shorter == WordSeqs(n - 1) IN
       shorter \cup { Append(ws, w) : ws \in { x \in shorter : Len(x) = n - 1 },
                                       w \in Words }

\* the inputs that the specification's examples name, and a few more
\* "raul dot smith at gmail dot com"
exRaul ==
  <<"r","a","u","l"," ","d","o","t"," ","s","m","i","t","h"," ","a","t"," ","g","m","a","i","l"," ","d","o","t"," ","c","o","m">>

\* "manuel fernandez arroba gmail punto com"
exManuel ==
  <<"m","a","n","u","e","l"," ","f","e","r","n","a","n","d","e","z"," ","a","r","r","o","b","a"," ","g","m","a","i","l"," ","p","u","n","t","o"," ","c","o","m">>

\* "juan arroba arroba gmail punto com"
exJuanTwice ==
  <<"j","u","a","n"," ","a","r","r","o","b","a"," ","a","r","r","o","b","a"," ","g","m","a","i","l"," ","p","u","n","t","o"," ","c","o","m">>

\* "guion bajo test arroba dominio punto com"
exGuionBajoTest ==
  <<"g","u","i","o","n"," ","b","a","j","o"," ","t","e","s","t"," ","a","r","r","o","b","a"," ","d","o","m","i","n","i","o"," ","p","u","n","t","o"," ","c","o","m">>

\* "ventas empresa"
exVentas ==
  <<"v","e","n","t","a","s"," ","e","m","p","r","e","s","a">>

\* "  Ram\u00d3n  ARROBA\tgmail punto com "
exRamon ==
  <<" "," ","R","a","m","u+00d3","n"," "," ","A","R","R","O","B","A","\t","g","m","a","i","l"," ","p","u","n","t","o"," ","c","o","m"," ">>

\* "   "
exBlank ==
  <<" "," "," ">>

\* "juan@gmail.com"
exEmbeddedAt ==
  <<"j","u","a","n","@","g","m","a","i","l",".","c","o","m">>

\* "ventas guion bajo empresa punto com"
exVentasDomain ==
  <<"v","e","n","t","a","s"," ","g","u","i","o","n"," ","b","a","j","o"," ","e","m","p","r","e","s","a"," ","p","u","n","t","o"," ","c","o","m">>

\* "a guion alto b arroba c punto es"
exGuionAlto ==
  <<"a"," ","g","u","i","o","n"," ","a","l","t","o"," ","b"," ","a","r","r","o","b","a"," ","c"," ","p","u","n","t","o"," ","e","s">>

\* "__proto__ arroba b.com"
exProto ==
  <<"_","_","p","r","o","t","o","_","_"," ","a","r","r","o","b","a"," ","b",".","c","o","m">>

\* "a arroba b punto punto punto com"
exDots ==
  <<"a"," ","a","r","r","o","b","a"," ","b"," ","p","u","n","t","o"," ","p","u","n","t","o"," ","p","u","n","t","o"," ","c","o","m">>

\* "a porfa arroba aroba b.com"
exVariants ==
  <<"a"," ","p","o","r","f","a"," ","a","r","r","o","b","a"," ","a","r","o","b","a"," ","b",".","c","o","m">>

\* "ni\u00f1o mas uno at b guion c.es"
exNino ==
  <<"n","i","u+00f1","o"," ","m","a","s"," ","u","n","o"," ","a","t"," ","b"," ","g","u","i","o","n"," ","c",".","e","s">>

\* "constructor"
exConstructor ==
  <<"c","o","n","s","t","r","u","c","t","o","r">>

\* "constructor arroba b.com"
exConstructorLocal ==
  <<"c","o","n","s","t","r","u","c","t","o","r"," ","a","r","r","o","b","a"," ","b",".","c","o","m">>

\* "a constructor punto b.com"
exConstructorDomain ==
  <<"a"," ","c","o","n","s","t","r","u","c","t","o","r"," ","p","u","n","t","o"," ","b",".","c","o","m">>

ExampleStrings ==
  { exRaul, exManuel, exJuanTwice, exGuionBajoTest, exVentas,
    exRamon, exBlank, exEmbeddedAt, exVentasDomain, exGuionAlto,
    exProto, exDots, exVariants, exNino,
    exConstructor, exConstructorLocal, exConstructorDomain }

BoundedStrings(n) == { JoinWith(ws, <<" ">>) : ws \in WordSeqs(n) }

\* the arguments of the direct calls: the strings of at most n words, the
\* examples, and values that are not strings
DirectInputs(n) ==
  { JsStr(str) : str \in BoundedStrings(n) \cup ExampleStrings }
    \cup { JsUndefined, JsNull, JsNum(0), JsNum(7) }

(***************************************************************************)
(* HTTP requests.  A request has a method, an optional query object, an    *)
(* optional pre-parsed body object and the raw body text of its stream.    *)
(***************************************************************************)
sAtB == <<"a"," ","a","t"," ","b",".","c","o","m">>

HttpTexts == { JsUndefined, JsStr(<<>>), JsNum(7), JsStr(sAtB), JsStr(<<" ">>) }

RawBodies ==
  { "", "{", "null", "7", "{}", "{\"text\":\"\"}", "{\"text\":7}",
    "{\"text\":\"a at b.com\"}" }

\* JSON.parse(raw): whether it throws, else the kind of value and the value
\* of its `text` property
JsonParse(raw) ==
  IF raw = "null" THEN [throws |-> FALSE, kind |-> "null", text |-> JsUndefined]
  ELSE IF raw = "7" THEN [throws |-> FALSE, kind |-> "number", text |-> JsUndefined]
  ELSE IF raw = "{}" THEN [throws |-> FALSE, kind |-> "object", text |-> JsUndefined]
  ELSE IF raw = "{\"text\":\"\"}"
       THEN [throws |-> FALSE, kind |-> "object", text |-> JsStr(<<>>)]
  ELSE IF raw = "{\"text\":7}"
       THEN [throws |-> FALSE, kind |-> "object", text |-> JsNum(7)]
  ELSE IF raw = "{\"text\":\"a at b.com\"}"
       THEN [throws |-> FALSE, kind |-> "object", text |-> JsStr(sAtB)]
  ELSE [throws |-> TRUE, kind |-> "none", text |-> JsUndefined]

\* JSON.parse(raw || "{}").text: throws when the parse throws (SyntaxError)
\* or when the parsed value is null (TypeError)
RawTextThrows(raw) ==
  LET p == JsonParse(IF raw = "" THEN "{}" ELSE raw) IN
  p.throws \/ p.kind = "null"

RawText(raw) == JsonParse(IF raw = "" THEN "{}" ELSE raw).text

NoRequest ==
  [method |-> "none", hasQuery |-> FALSE, queryText |-> JsUndefined,
   hasBody |-> FALSE, bodyText |-> JsUndefined, raw |-> ""]

Requests ==
  { [method |-> m, hasQuery |-> TRUE, queryText |-> q,
     hasBody |-> FALSE, bodyText |-> JsUndefined, raw |-> ""] :
       m \in {"OPTIONS", "GET", "PUT"}, q \in HttpTexts }
  \cup
  { [method |-> "GET", hasQuery |-> FALSE, queryText |-> JsUndefined,
     hasBody |-> FALSE, bodyText |-> JsUndefined, raw |-> ""] }
  \cup
  { [method |-> "POST", hasQuery |-> FALSE, queryText |-> JsUndefined,
     hasBody |-> TRUE, bodyText |-> b, raw |-> ""] : b \in HttpTexts }
  \cup
  { [method |-> "POST", hasQuery |-> FALSE, queryText |-> JsUndefined,
     hasBody |-> FALSE, bodyText |-> JsUndefined, raw |-> r] : r \in RawBodies }

Response(status, kind, res) == [status |-> status, kind |-> kind, result |-> res]

(***************************************************************************)
(* The state machine.  mode "direct" is a call of formatEmailText(input);  *)
(* mode "http" is one run of the exported handler, which calls it.         *)
(***************************************************************************)
InitWith(inputs) ==
  /\ variant \in Variants
  /\ \/ /\ mode = "direct"
        /\ req = NoRequest
        /\ input \in inputs
        /\ pc = "guard"
        /\ calls = 1
     \/ /\ mode = "http"
        /\ req \in Requests
        /\ input = JsUndefined
        /\ pc = "handler"
        /\ calls = 0
  /\ s = <<>>
  /\ rawTokens = <<>>
  /\ i = 0
  /\ out = <<>>
  /\ seenAt = FALSE
  /\ result = NoResult
  /\ stages = {}
  /\ text = JsStr(<<>>)
  /\ responses = <<>>

Init == InitWith(DirectInputs(MaxTokens))

FairInit == InitWith(DirectInputs(MaxFairTokens))

hvars == <<variant, mode, req, text, responses, calls, input>>

\* lines 10-12
EmptyGuard ==
  /\ pc = "guard"
  /\ IsEmptyInput(input)
  /\ result' = EmptyInputResult
  /\ pc' = "returned"
  /\ UNCHANGED <<hvars, s, rawTokens, i, out, seenAt, stages>>

\* lines 13-14 and 26
Normalize ==
  /\ pc = "guard"
  /\ ~IsEmptyInput(input)
  /\ s' = Canonicalize(input.str)
  /\ rawTokens' = Tokenize(s')
  /\ i' = 0
  /\ out' = <<>>
  /\ seenAt' = FALSE
  /\ stages' = stages \cup {"canonicalize", "tokenize"}
  /\ pc' = "loop"
  /\ UNCHANGED <<hvars, result>>

\* one iteration of the loop of lines 28-51 under the given rule
LoopBody(rule) ==
  /\ pc = "loop"
  /\ i < Len(rawTokens)
  /\ RuleAt(variant, rawTokens, i) = rule
  /\ LET n == RewriteStep(variant, rawTokens, i, out, seenAt) IN
       /\ i' = n.i
       /\ out' = n.out
       /\ seenAt' = n.seenAt
  /\ stages' = stages \cup {"rewrite"}
  /\ UNCHANGED <<hvars, s, rawTokens, result, pc>>

RuleIgnore == LoopBody("ignore")

RuleBigram == LoopBody("bigram")

RuleSingle == LoopBody("single")

RuleLiteral == LoopBody("literal")

RuleStrip == LoopBody("strip")

\* the loop's exit and line 53
LoopExit ==
  /\ pc = "loop"
  /\ ~(i < Len(rawTokens))
  /\ out' = BasicCleanup(out)
  /\ stages' = stages \cup {"rewrite", "cleanup"}
  /\ pc' = IF variant = "fallback" THEN "ensureAt" ELSE "adjust"
  /\ UNCHANGED <<hvars, s, rawTokens, i, seenAt, result>>

\* lines 189-208, "fallback" version only
EnsureAtStep ==
  /\ pc = "ensureAt"
  /\ out' = EnsureAt(out, seenAt)
  /\ pc' = "adjust"
  /\ UNCHANGED <<hvars, s, rawTokens, i, seenAt, result, stages>>

\* lines 55-63
Adjust ==
  /\ pc = "adjust"
  /\ out' = FinalAdjust(out)
  /\ pc' = "validate"
  /\ UNCHANGED <<hvars, s, rawTokens, i, seenAt, result, stages>>

\* lines 65-66
Validate ==
  /\ pc = "validate"
  /\ result' = NormalizedResult(input, out)
  /\ stages' = stages \cup {"validate"}
  /\ pc' = "returned"
  /\ UNCHANGED <<hvars, s, rawTokens, i, out, seenAt>>

fvars == <<variant, mode, req, input, s, rawTokens, i, out, seenAt, result, stages>>

\* line 84
HandleOptions ==
  /\ pc = "handler"
  /\ req.method = "OPTIONS"
  /\ responses' = Append(responses, Response(204, "none", NoResult))
  /\ pc' = "end"
  /\ UNCHANGED <<fvars, text, calls>>

\* lines 88-89
HandleGet ==
  /\ pc = "handler"
  /\ req.method = "GET"
  /\ text' = OrElse(IF req.hasQuery THEN req.queryText ELSE JsUndefined,
                    JsStr(<<>>))
  /\ pc' = "checkText"
  /\ UNCHANGED <<fvars, responses, calls>>

\* lines 90, 96-98
HandlePostBody ==
  /\ pc = "handler"
  /\ req.method = "POST"
  /\ req.hasBody
  /\ text' = OrElse(req.bodyText, JsStr(<<>>))
  /\ pc' = "checkText"
  /\ UNCHANGED <<fvars, responses, calls>>

\* lines 90-95
HandlePostRaw ==
  /\ pc = "handler"
  /\ req.method = "POST"
  /\ ~req.hasBody
  /\ ~RawTextThrows(req.raw)
  /\ text' = OrElse(RawText(req.raw), JsStr(<<>>))
  /\ pc' = "checkText"
  /\ UNCHANGED <<fvars, responses, calls>>

\* line 95 throwing, caught at lines 105-107
HandlePostRawThrows ==
  /\ pc = "handler"
  /\ req.method = "POST"
  /\ ~req.hasBody
  /\ RawTextThrows(req.raw)
  /\ responses' = Append(responses, Response(500, "internalError", NoResult))
  /\ pc' = "end"
  /\ UNCHANGED <<fvars, text, calls>>

\* lines 99-102
HandleOther ==
  /\ pc = "handler"
  /\ req.method \notin {"OPTIONS", "GET", "POST"}
  /\ responses' = Append(responses, Response(405, "methodNotAllowed", NoResult))
  /\ pc' = "end"
  /\ UNCHANGED <<fvars, text, calls>>

\* line 103
RejectMissingText ==
  /\ pc = "checkText"
  /\ Falsy(text)
  /\ responses' = Append(responses, Response(400, "missingText", NoResult))
  /\ pc' = "end"
  /\ UNCHANGED <<fvars, text, calls>>

\* line 104: the call formatEmailText(text)
CallFormat ==
  /\ pc = "checkText"
  /\ ~Falsy(text)
  /\ input' = text
  /\ calls' = calls + 1
  /\ pc' = "guard"
  /\ UNCHANGED <<variant, mode, req, s, rawTokens, i, out, seenAt, result,
                 stages, text, responses>>

\* line 104: res.status(200).json(<the value returned>)
Respond200 ==
  /\ pc = "returned"
  /\ mode = "http"
  /\ responses' = Append(responses, Response(200, "result", result))
  /\ pc' = "end"
  /\ UNCHANGED <<fvars, text, calls>>

Next ==
  \/ EmptyGuard
  \/ Normalize
  \/ RuleIgnore
  \/ RuleBigram
  \/ RuleSingle
  \/ RuleLiteral
  \/ RuleStrip
  \/ LoopExit
  \/ EnsureAtStep
  \/ Adjust
  \/ Validate
  \/ HandleOptions
  \/ HandleGet
  \/ HandlePostBody
  \/ HandlePostRaw
  \/ HandlePostRawThrows
  \/ HandleOther
  \/ RejectMissingText
  \/ CallFormat
  \/ Respond200

Spec == Init /\ [][Next]_vars

\* A call or a handler run that has not finished executes its next
\* statement: JavaScript runs it to completion.
Finished == pc = "end" \/ (pc = "returned" /\ mode = "direct")

FairSpec == FairInit /\ [][Next]_vars /\ WF_vars(Next)

TypeOK ==
  /\ variant \in Variants
  /\ mode \in {"direct", "http"}
  /\ pc \in {"handler", "checkText", "guard", "loop", "ensureAt", "adjust",
             "validate", "returned", "end"}
  /\ i \in 0..Len(rawTokens)
  /\ seenAt \in BOOLEAN
  /\ Len(responses) <= 1

(***************************************************************************)
(* Properties.                                                             *)
(***************************************************************************)
Returned == result.shape # "none"

Normalized == result.shape = "normalized"

\* the part of an email after its first "@"
AfterAt(email) == SubSeq(email, IndexOf(email, "@") + 1, Len(email))

BeforeAt(email) == SubSeq(email, 1, IndexOf(email, "@") - 1)

\* the separator words and symbol of a version: the keys whose symbol is "@"
SeparatorTokens(v) ==
  {<<"@">>, <<"a","r","r","o","b","a">>, <<"a","t">>}
    \cup (IF v = "fallback"
          THEN {<<"a","r","o","b","a">>, <<"a","r","r","o","v","a">>,
                <<"a","r","z","r","o","b","a">>}
          ELSE {})

SeparatorsIn(v, toks, n) ==
  { k \in 1..n : toks[k] \in SeparatorTokens(v) }

\* C1: the email returned holds at most one "@".  While rewriting, the
\* accumulator holds one "@" exactly when a separator token has been
\* consumed and none otherwise (later separators are dropped, an "@" inside
\* another token is stripped), and no later step adds one.
C1_AtMostOneAt ==
  /\ CountOf(out, "@") <= 1
  /\ pc = "loop" =>
       CountOf(out, "@") =
         (IF SeparatorsIn(variant, rawTokens, i) = {} THEN 0 ELSE 1)
  /\ Returned => CountOf(result.email, "@") <= 1

\* "juan arroba arroba gmail punto com" has come back as "juan@gmail.com"
C1_Witness ==
  /\ input = JsStr(exJuanTwice)
  /\ Cardinality(SeparatorsIn(variant, rawTokens, Len(rawTokens))) = 2
  /\ Normalized
  /\ result.email = <<"j","u","a","n","@","g","m","a","i","l",".","c","o","m">>

NonEmptyString(v) == v.t = "string" /\ v.str # <<>>

ConfidenceValues == {0, 40, 60, 80, 99}

C2_CursorInv == pc = "loop" => i <= Len(rawTokens)

C2_CursorStep ==
  (pc = "loop" /\ pc' = "loop") => (i' \in {i + 1, i + 2} /\ i' <= Len(rawTokens))

C2_LoopExit == (pc = "loop" /\ pc' # "loop") => i = Len(rawTokens)

C2_Confidence == Returned => result.confidence \in ConfidenceValues

\* C2: for every non-empty string input formatEmailText terminates: the
\* cursor advances by 1 or 2 at every step of the loop, never exceeds the
\* token count, and is the token count when the loop exits; the call
\* returns, with a confidence that is one of 0.0, 0.4, 0.6, 0.8, 0.99.
C2_Terminates ==
  /\ []C2_CursorInv
  /\ [][C2_CursorStep]_vars
  /\ [][C2_LoopExit]_vars
  /\ []C2_Confidence
  /\ (pc = "guard" /\ NonEmptyString(input)) ~> (pc = "returned" /\ Normalized)

\* the seven tokens of "guion bajo test arroba dominio punto com" are
\* consumed and the call has returned with confidence 0.99
C2_Witness ==
  /\ input = JsStr(exGuionBajoTest)
  /\ pc = "returned"
  /\ i = Len(rawTokens)
  /\ Len(rawTokens) > 6
  /\ result.confidence = 99

PipelineStages == {"canonicalize", "tokenize", "rewrite", "cleanup", "validate"}

\* C3: an input that is absent, not a string or the empty string gets the
\* error-shaped result (confidence 0.0, reason "Empty input") and no stage
\* of the pipeline runs; every other input (a non-empty string, also one of
\* whitespace only) runs all the stages and never gets confidence 0.0.
C3_EmptyGuard ==
  Returned =>
    IF input.t # "string" \/ input.str = <<>>
    THEN /\ result.shape = "error"
         /\ result.email = <<>>
         /\ ~result.isValid
         /\ result.confidence = 0
         /\ result.reason = "Empty input"
         /\ stages = {}
    ELSE /\ result.shape = "normalized"
         /\ result.confidence # 0
         /\ stages = PipelineStages

\* a number has been turned away by the guard
C3_Witness ==
  /\ input.t = "number"
  /\ ~Falsy(input)
  /\ result = EmptyInputResult
  /\ stages = {}

\* a string of whitespace only has run the pipeline
C3_WitnessBlank ==
  /\ input = JsStr(exBlank)
  /\ Normalized
  /\ result.confidence = 40

\* C4: the domain returned, and the part of the email after the "@", never
\* hold two consecutive dots.
C4_NoDotDot ==
  Normalized =>
    /\ ~HasDotDot(result.domain)
    /\ Contains(result.email, "@") => ~HasDotDot(AfterAt(result.email))

\* the domain token "a..b" has come back as the domain "a.b"
C4_Witness ==
  /\ Normalized
  /\ Len(rawTokens) = 3
  /\ rawTokens[2] \in SeparatorTokens(variant)
  /\ HasDotDot(rawTokens[3])
  /\ result.domain = <<"a", ".", "b">>

NoSeparatorToken ==
  SeparatorsIn(variant, rawTokens, Len(rawTokens)) = {}

NoAtResult ==
  /\ ~Contains(result.email, "@")
  /\ ~result.isValid
  /\ result.confidence = 40
  /\ result.local = <<>>
  /\ result.domain = <<>>

\* C5 as stated: with no separator token in a non-empty string input no "@"
\* is formed: the email has no "@", isValid is false, confidence is 0.4 and
\* local and domain are empty.
C5_Original == (Normalized /\ NoSeparatorToken) => NoAtResult

\* the string the version with the fallback hands to its lines 189-208
CleanedOut(v, toks) == BasicCleanup(RewriteFrom(v, toks, 0, <<>>, FALSE).out)

\* the fallback finds a domain-like suffix after a non-empty local part
Inferred(v, toks) ==
  /\ v = "fallback"
  /\ InferAt(CleanedOut(v, toks)) # CleanedOut(v, toks)

\* C5 amended: with no separator token the rewriter emits no "@", and the
\* result is the no-"@" result (confidence 0.4, local and domain empty)
\* unless the version with the domain-inference fallback finds a domain-like
\* suffix after a non-empty prefix; it then inserts the "@" before the
\* suffix and the validator scores the email.
C5_Amended ==
  /\ (pc = "loop" /\ SeparatorsIn(variant, rawTokens, i) = {}) =>
       ~Contains(out, "@")
  /\ (Normalized /\ NoSeparatorToken) =>
       IF Inferred(variant, rawTokens)
       THEN /\ CountOf(result.email, "@") = 1
            /\ result.local # <<>>
            /\ result.domain # <<>>
            /\ result.confidence \in {60, 80, 99}
       ELSE NoAtResult

\* "juan@gmail.com" has come back without its "@"
C5_Witness ==
  /\ input = JsStr(exEmbeddedAt)
  /\ Normalized
  /\ NoSeparatorToken
  /\ result.email = <<"j","u","a","n","g","m","a","i","l",".","c","o","m">>
  /\ result.confidence = 40

\* the text a request carries, as the claim reads it: the query's for GET,
\* the body's for POST
TextOfRequest(r) ==
  IF r.method = "GET" THEN (IF r.hasQuery THEN r.queryText ELSE JsUndefined)
  ELSE IF r.hasBody THEN r.bodyText
  ELSE JsonParse(IF r.raw = "" THEN "{}" ELSE r.raw).text

MalformedJson(r) ==
  r.method = "POST" /\ ~r.hasBody /\ r.raw # "" /\ JsonParse(r.raw).throws

MissingOrEmpty(v) == v.t = "undefined" \/ (v.t = "string" /\ v.str = <<>>)

ExpectedStatus(r) ==
  IF r.method = "OPTIONS" THEN 204
  ELSE IF r.method \notin {"GET", "POST"} THEN 405
  ELSE IF MalformedJson(r) THEN 500
  ELSE IF MissingOrEmpty(TextOfRequest(r)) THEN 400
  ELSE 200

\* C6 as stated: the handler sends exactly one response per request, with
\* status 204 for OPTIONS, 405 for a method other than GET, POST, OPTIONS,
\* 400 for a GET or POST whose text is missing or empty, 500 for a POST
\* whose raw body is malformed JSON, and 200 with the result of
\* formatEmailText(text) otherwise; formatEmailText is called only in the
\* 200 case.
C6_StatusByRequest ==
  /\ Len(responses) <= 1
  /\ calls <= 1
  /\ pc = "end" =>
       /\ Len(responses) = 1
       /\ responses[1].status = ExpectedStatus(req)
       /\ (calls = 1) <=> (responses[1].status = 200)
       /\ responses[1].status = 200 =>
            (responses[1].result = result /\ input = TextOfRequest(req))
       /\ responses[1].status = 204 => responses[1].kind = "none"

\* C7: for a cleaned candidate that holds an "@", confidence is 0.99 with
\* isValid exactly when localOk and domainOk hold; 0.8 without isValid
\* exactly when localOk holds, domainOk does not and the domain is not
\* empty; 0.6 without isValid in every other case.  In every result isValid
\* is true if and only if confidence is 0.99.
C7_ConfidencePriority ==
  /\ Returned => (result.isValid <=> result.confidence = 99)
  /\ (Normalized /\ Contains(result.email, "@")) =>
       LET l == BeforeAt(result.email)
           d == AfterAt(result.email)
           high == LocalOk(l) /\ DomainOk(d)
           mid == LocalOk(l) /\ ~DomainOk(d) /\ d # <<>>
       IN /\ result.local = l
          /\ result.domain = d
          /\ (result.confidence = 99 /\ result.isValid) <=> high
          /\ (result.confidence = 80 /\ ~result.isValid) <=> mid
          /\ (result.confidence = 60 /\ ~result.isValid) <=> (~high /\ ~mid)

\* a valid local part with a domain that has no top-level label scores 0.8
C7_Witness ==
  /\ Normalized
  /\ Contains(result.email, "@")
  /\ LocalOk(result.local)
  /\ ~DomainOk(result.domain)
  /\ result.domain # <<>>
  /\ result.confidence = 80
  /\ ~result.isValid

\* the cursor is on the token "guion"
OnGuion ==
  pc = "loop" /\ i < Len(rawTokens) /\ rawTokens[i+1] = <<"g","u","i","o","n">>

NextTokenIn(ws) == i + 1 < Len(rawTokens) /\ rawTokens[i+2] \in ws

C8_GuionStep ==
  OnGuion =>
    IF NextTokenIn({<<"b","a","j","o">>})
    THEN out' = out \o <<"_">> /\ i' = i + 2
    ELSE IF NextTokenIn({<<"m","e","d","i","o">>, <<"a","l","t","o">>})
    THEN out' = out \o <<"-">> /\ i' = i + 2
    ELSE out' = out \o <<"-">> /\ i' = i + 1

C8_Example ==
  (Returned /\ input = JsStr(exGuionBajoTest)) =>
    result.email = <<"_","t","e","s","t","@","d","o","m","i","n","i","o",
                     ".","c","o","m">>

\* C8: with the cursor on "guion", a next token "bajo" makes the rewriter
\* emit exactly "_" and advance by 2, a next token "medio" or "alto" makes
\* it emit exactly "-" and advance by 2, and only without such a next token
\* does the single-token map apply (emit "-", advance by 1);
\* "guion bajo test arroba dominio punto com" gives "_test@dominio.com".
C8_BigramPrecedence == [][C8_GuionStep]_vars /\ []C8_Example

\* "guion bajo test arroba dominio punto com" has come back
C8_Witness ==
  /\ input = JsStr(exGuionBajoTest)
  /\ Normalized
  /\ rawTokens[1] = <<"g","u","i","o","n">>
  /\ rawTokens[2] = <<"b","a","j","o">>
  /\ result.email[1] = "_"
  /\ result.confidence = 99

\* the Ignore set of a version
FillerWords(v) ==
  IgnoreBase \cup (IF v = "fallback" THEN {<<"p","o","r","f","a">>} ELSE {})

IsNotFiller(t) == t \notin FillerWords(variant)

WithoutFillers(toks) == SelectSeq(toks, IsNotFiller)

\* C9 as stated: the email is the one returned for the token sequence with
\* every Ignore-set token deleted, also when an Ignore token stands between
\* "guion" and "bajo"/"medio"/"alto".
C9_Original ==
  Normalized => result.email = EmailOfTokens(variant, WithoutFillers(rawTokens))

\* Ignore tokens, and nothing else, stand between a "guion" and a later
\* "bajo", "medio" or "alto"
FillerInsideBigram(toks) ==
  \E a \in 1..Len(toks), b \in 1..Len(toks) :
    /\ a + 1 < b
    /\ toks[a] = <<"g","u","i","o","n">>
    /\ toks[b] \in {<<"b","a","j","o">>, <<"m","e","d","i","o">>, <<"a","l","t","o">>}
    /\ \A k \in (a+1)..(b-1) : toks[k] \in FillerWords(variant)

\* C9 amended: the email is the one returned for the token sequence with
\* every Ignore-set token deleted, provided no Ignore token stands between
\* a "guion" and the "bajo", "medio" or "alto" that would follow it (there
\* the Ignore token keeps the bigram from forming).
C9_Amended ==
  (Normalized /\ ~FillerInsideBigram(rawTokens)) =>
    result.email = EmailOfTokens(variant, WithoutFillers(rawTokens))

\* "a y b.com" has come back as "ab.com"
C9_Witness ==
  /\ Normalized
  /\ rawTokens = << <<"a">>, <<"y">>, <<"b",".","c","o","m">> >>
  /\ ~FillerInsideBigram(rawTokens)
  /\ result.email = <<"a","b",".","c","o","m">>

\* C10 as stated: every character of the email returned is in
\* [a-z0-9._+-] or is the separator "@".
C10_EmailAlphabet ==
  Normalized => AllIn(result.email, EmailChars \cup {"@"})

====
